---- MODULE Spec2Model ----
(***************************************************************************)
(* Event / Booking persistence pipeline of the events site:                *)
(*   - database/event.model.ts   (generateSlug, normalizeDate,             *)
(*     normalizeTime, the Event pre-save hook, the unique slug index),     *)
(*   - database/booking.model.ts (the Booking pre-save hook),              *)
(*   - lib/mongodb.ts            (connectToDatabase and its cache).        *)
(* Text is a sequence of one-character strings, so that the string         *)
(* transformations are computed character by character as the code does.   *)
(***************************************************************************)
EXTENDS Integers, Sequences, FiniteSets, TLC

VARIABLES
    \* generateSlug harness
    sTitle, sSlug, sAgain, sStage,
    \* normalizeDate harness: the input text, the calendar day it names,
    \* the result, and the host's offset from UTC in minutes (east positive)
    dText, dNames, dOut, dStage, tz,
    \* the document store: the Event and Booking collections, by _id
    events, bookings,
    \* each writer's save in progress: where it stands and the document it is
    \* writing; and what the latest step of a save reported to its caller
    pc, doc, outcome,
    \* number of saves started
    ops,
    \* lib/mongodb.ts: cached.conn, cached.promise, the connection attempts
    \* (calls of mongoose.connect) so far, the callers of connectToDatabase,
    \* the number of attempts that connected and of calls made
    cachedConn, cachedPromise, attempts, callers, established, calls

slugVars == <<sTitle, sSlug, sAgain, sStage>>
dateVars == <<dText, dNames, dOut, dStage>>
storeVars == <<events, bookings, pc, doc, outcome, ops>>
connVars == <<cachedConn, cachedPromise, attempts, callers, established, calls>>
vars == <<slugVars, dateVars, tz, storeVars, connVars>>

\* a result: a value, or the error thrown
Ok(v) == [ok |-> TRUE, value |-> v, error |-> "none"]
Err(e) == [ok |-> FALSE, value |-> <<>>, error |-> e]

Writers == {"w1", "w2"}
EventIds == {"e1", "e2"}
BookingIds == {"b1", "b2"}

EmptyMap == [x \in {} |-> x]
NoDoc == [kind |-> "none", id |-> "none", isNew |-> FALSE, delta |-> EmptyMap]
\* what a step of a save reports: who saved, how it went, the error thrown,
\* the event id the error names, and whether the hook had already changed
\* the document in memory when it threw
Outcome(w, kind, status, error, missing) ==
    [writer |-> w, kind |-> kind, status |-> status, error |-> error,
     missing |-> missing, touched |-> FALSE]
NoOutcome == Outcome("none", "none", "none", "none", "none")

Callers == {"c1", "c2", "c3"}
NotCalling == [pc |-> "idle", awaits |-> 0]

\* the harnesses that a specification does not use stay switched off
ConnIdle ==
    /\ cachedConn = "null"
    /\ cachedPromise = 0
    /\ attempts = <<>>
    /\ callers = [c \in Callers |-> [pc |-> "off", awaits |-> 0]]
    /\ established = 0
    /\ calls = 0

StoreIdle ==
    /\ events = EmptyMap
    /\ bookings = EmptyMap
    /\ pc = [w \in Writers |-> "off"]
    /\ doc = [w \in Writers |-> NoDoc]
    /\ outcome = NoOutcome
    /\ ops = 0

SlugIdle ==
    /\ sTitle = <<>>
    /\ sSlug = <<>>
    /\ sAgain = <<>>
    /\ sStage = "off"

DateIdle ==
    /\ dText = <<>>
    /\ dNames = <<>>
    /\ dOut = Err("none")
    /\ dStage = "off"

(***************************************************************************)
(* Characters                                                              *)
(***************************************************************************)
Uppers == <<"A","B","C","D","E","F","G","H","I","J","K","L","M",
            "N","O","P","Q","R","S","T","U","V","W","X","Y","Z">>
Lowers == <<"a","b","c","d","e","f","g","h","i","j","k","l","m",
            "n","o","p","q","r","s","t","u","v","w","x","y","z">>
DigitChars == <<"0","1","2","3","4","5","6","7","8","9">>

Range(f) == { f[i] : i \in DOMAIN f }

\* F applied to the value of e: e is evaluated once, whatever F does with it
Let(e, F(_)) == CHOOSE r \in { F(v) : v \in {e} } : TRUE

UpperSet == Range(Uppers)
LowerSet == Range(Lowers)
DigitSet == Range(DigitChars)
IsUpper(c) == c \in UpperSet
IsLower(c) == c \in LowerSet
IsDigit(c) == c \in DigitSet
\* \s of the regular expressions, and what String.prototype.trim strips
IsSpace(c) == c \in {" ", "\t"}
\* \w of the regular expressions: [A-Za-z0-9_]
IsWord(c) == IsUpper(c) \/ IsLower(c) \/ IsDigit(c) \/ c = "_"

LowerOf(c) == IF IsUpper(c) THEN Lowers[CHOOSE i \in 1..26 : Uppers[i] = c] ELSE c

\* String.prototype.toLowerCase
toLowerCase(s) == [i \in 1..Len(s) |-> LowerOf(s[i])]

RECURSIVE TrimLeft(_)
TrimLeft(s) == IF s # <<>> /\ IsSpace(Head(s)) THEN TrimLeft(Tail(s)) ELSE s

RECURSIVE TrimRight(_)
TrimRight(s) ==
    IF s # <<>> /\ IsSpace(s[Len(s)]) THEN TrimRight(SubSeq(s, 1, Len(s) - 1)) ELSE s

\* String.prototype.trim
trim(s) == TrimRight(TrimLeft(s))

(***************************************************************************)
(* generateSlug (event.model.ts)                                           *)
(***************************************************************************)
KeptBySlug(c) == IsWord(c) \/ IsSpace(c) \/ c = "-"

\* .replace(/[^\w\s-]/g, '')
RemoveSpecial(s) == SelectSeq(s, KeptBySlug)

\* .replace(/\s+/g, '-')
RECURSIVE SpacesToHyphen(_)
SpacesToHyphen(s) ==
    IF s = <<>> THEN <<>>
    ELSE IF IsSpace(Head(s))
         THEN <<"-">> \o SpacesToHyphen(TrimLeft(Tail(s)))
         ELSE <<Head(s)>> \o SpacesToHyphen(Tail(s))

RECURSIVE DropHyphens(_)
DropHyphens(s) == IF s # <<>> /\ Head(s) = "-" THEN DropHyphens(Tail(s)) ELSE s

\* a slip that would keep runs of hyphens
CollapseHyphensKeepRuns(s) == s

\* .replace(/-+/g, '-')
RECURSIVE CollapseHyphens(_)
CollapseHyphens(s) ==
    IF s = <<>> THEN <<>>
    ELSE IF Head(s) = "-"
         THEN <<"-">> \o CollapseHyphens(DropHyphens(Tail(s)))
         ELSE <<Head(s)>> \o CollapseHyphens(Tail(s))

\* title.toLowerCase().trim().replace(...).replace(...).replace(...)
generateSlug(title) ==
    Let(Let(Let(Let(Let(title, toLowerCase), trim), RemoveSpecial), SpacesToHyphen),
        CollapseHyphens)

(***************************************************************************)
(* Numbers as text                                                         *)
(***************************************************************************)
DigitVal(c) == (CHOOSE i \in 1..10 : DigitChars[i] = c) - 1
AllDigits(s) == s # <<>> /\ \A i \in 1..Len(s) : IsDigit(s[i])

RECURSIVE ToNum(_)
ToNum(s) ==
    IF s = <<>> THEN 0 ELSE ToNum(SubSeq(s, 1, Len(s) - 1)) * 10 + DigitVal(s[Len(s)])

\* Number.prototype.toString of a natural number
RECURSIVE NumToString(_)
NumToString(n) ==
    IF n < 10 THEN <<DigitChars[n + 1]>>
    ELSE NumToString(n \div 10) \o <<DigitChars[(n % 10) + 1]>>

\* String.prototype.padStart(w, '0')
RECURSIVE padStart(_, _)
padStart(s, w) == IF Len(s) >= w THEN s ELSE padStart(<<"0">> \o s, w)

Pad(n, w) == padStart(NumToString(n), w)

(***************************************************************************)
(* The Date built-in, as far as normalizeDate and normalizeTime use it.    *)
(* A time value is a UTC day number (days since 1970-01-01) and a minute   *)
(* of that day, or NaN.  The host's zone is a fixed offset tz.             *)
(***************************************************************************)
MinutesPerDay == 24 * 60
NaN == [nan |-> TRUE, day |-> 0, min |-> 0]
TimeValue(day, min) == [nan |-> FALSE, day |-> day, min |-> min]

IsLeap(y) == (y % 4 = 0 /\ y % 100 # 0) \/ y % 400 = 0
DaysInMonth(y, m) ==
    IF m = 2 THEN (IF IsLeap(y) THEN 29 ELSE 28)
    ELSE IF m \in {4, 6, 9, 11} THEN 30 ELSE 31

\* day number of a proleptic Gregorian date
DaysFromCivil(y, m, d) ==
    LET yy  == IF m <= 2 THEN y - 1 ELSE y
        era == yy \div 400
        yoe == yy - era * 400
        mp  == IF m > 2 THEN m - 3 ELSE m + 9
        doy == (153 * mp + 2) \div 5 + d - 1
        doe == yoe * 365 + yoe \div 4 - yoe \div 100 + doy
    IN  era * 146097 + doe - 719468

\* the proleptic Gregorian date of a day number
CivilFromDays(z0) ==
    LET z   == z0 + 719468
        era == z \div 146097
        doe == z - era * 146097
        yoe == (doe - doe \div 1460 + doe \div 36524 - doe \div 146096) \div 365
        doy == doe - (365 * yoe + yoe \div 4 - yoe \div 100)
        mp  == (5 * doy + 2) \div 153
        d   == doy - (153 * mp + 2) \div 5 + 1
        m   == IF mp < 10 THEN mp + 3 ELSE mp - 9
        y   == yoe + era * 400 + (IF m <= 2 THEN 1 ELSE 0)
    IN  <<y, m, d>>

\* local wall-clock time to UTC, and back
LocalToUtc(day, min, off) ==
    LET total == min - off
    IN  TimeValue(day + total \div MinutesPerDay, total % MinutesPerDay)
UtcToLocal(tv, off) ==
    LET total == tv.min + off
    IN  TimeValue(tv.day + total \div MinutesPerDay, total % MinutesPerDay)

MonthNames == <<
    <<"j","a","n","u","a","r","y">>, <<"f","e","b","r","u","a","r","y">>,
    <<"m","a","r","c","h">>, <<"a","p","r","i","l">>, <<"m","a","y">>,
    <<"j","u","n","e">>, <<"j","u","l","y">>, <<"a","u","g","u","s","t">>,
    <<"s","e","p","t","e","m","b","e","r">>, <<"o","c","t","o","b","e","r">>,
    <<"n","o","v","e","m","b","e","r">>, <<"d","e","c","e","m","b","e","r">> >>

\* index of the first c in s, 0 when there is none
IndexOf(s, c) ==
    IF \E i \in 1..Len(s) : s[i] = c
    THEN CHOOSE i \in 1..Len(s) : s[i] = c /\ \A j \in 1..(i - 1) : s[j] # c
    ELSE 0

ValidYMD(y, m, d) == m \in 1..12 /\ d >= 1 /\ d <= DaysInMonth(y, m)

\* "YYYY-MM-DD": a date-only ISO form, which is read as UTC midnight
ParseIsoDate(s) ==
    IF /\ Len(s) = 10
       /\ s[5] = "-" /\ s[8] = "-"
       /\ AllDigits(SubSeq(s, 1, 4)) /\ AllDigits(SubSeq(s, 6, 7))
       /\ AllDigits(SubSeq(s, 9, 10))
    THEN LET y == ToNum(SubSeq(s, 1, 4))
             m == ToNum(SubSeq(s, 6, 7))
             d == ToNum(SubSeq(s, 9, 10))
         IN  IF ValidYMD(y, m, d) THEN TimeValue(DaysFromCivil(y, m, d), 0) ELSE NaN
    ELSE NaN

\* "+YYYYYY-MM-DD": the expanded-year ISO form, read as UTC midnight
ParseExpandedDate(s) ==
    IF /\ Len(s) = 13
       /\ s[1] = "+" /\ s[8] = "-" /\ s[11] = "-"
       /\ AllDigits(SubSeq(s, 2, 7)) /\ AllDigits(SubSeq(s, 9, 10))
       /\ AllDigits(SubSeq(s, 12, 13))
    THEN LET y == ToNum(SubSeq(s, 2, 7))
             m == ToNum(SubSeq(s, 9, 10))
             d == ToNum(SubSeq(s, 12, 13))
         IN  IF ValidYMD(y, m, d) THEN TimeValue(DaysFromCivil(y, m, d), 0) ELSE NaN
    ELSE NaN

\* "Month D, YYYY": a non-ISO form, which is read as midnight in the host's zone
ParseLongDate(s, off) ==
    LET sp == IndexOf(s, " ")
        cm == IndexOf(s, ",")
    IN  IF sp > 1 /\ cm > sp + 1 /\ Len(s) >= cm + 5 /\ s[cm + 1] = " "
        THEN LET name == toLowerCase(SubSeq(s, 1, sp - 1))
                 dd   == SubSeq(s, sp + 1, cm - 1)
                 yyyy == SubSeq(s, cm + 2, Len(s))
             IN  IF /\ \E i \in 1..12 : MonthNames[i] = name
                    /\ AllDigits(dd) /\ Len(dd) <= 2
                    /\ AllDigits(yyyy)
                 THEN LET m == CHOOSE i \in 1..12 : MonthNames[i] = name
                          y == ToNum(yyyy)
                          d == ToNum(dd)
                      IN  IF ValidYMD(y, m, d)
                          THEN LocalToUtc(DaysFromCivil(y, m, d), 0, off)
                          ELSE NaN
                 ELSE NaN
        ELSE NaN

\* new Date(dateString)
DateParse(s, off) ==
    IF ~ParseIsoDate(s).nan THEN ParseIsoDate(s)
    ELSE IF ~ParseExpandedDate(s).nan THEN ParseExpandedDate(s)
    ELSE ParseLongDate(s, off)

\* date.toISOString().split('T')[0]: four-digit years are written as such,
\* any other year as a sign and six digits
IsoDatePart(tv) ==
    LET ymd == CivilFromDays(tv.day)
        y   == ymd[1]
        yr  == IF y >= 0 /\ y <= 9999 THEN Pad(y, 4)
               ELSE IF y > 9999 THEN <<"+">> \o Pad(y, 6)
               ELSE <<"-">> \o Pad(0 - y, 6)
    IN  yr \o <<"-">> \o Pad(ymd[2], 2) \o <<"-">> \o Pad(ymd[3], 2)

normalizeDate(dateString, off) ==
    LET date == DateParse(dateString, off)
    IN  IF date.nan THEN Err("Invalid date format")
        ELSE Ok(IsoDatePart(date))

(***************************************************************************)
(* normalizeTime (event.model.ts)                                          *)
(***************************************************************************)
\* /^([01]\d|2[0-3]):([0-5]\d)$/
time24HourRegex(s) ==
    /\ Len(s) = 5
    /\ s[3] = ":"
    /\ \/ s[1] \in {"0", "1"} /\ IsDigit(s[2])
       \/ s[1] = "2" /\ s[2] \in {"0", "1", "2", "3"}
    /\ s[4] \in {"0", "1", "2", "3", "4", "5"}
    /\ IsDigit(s[5])

Meridiems == { <<>>, <<"a","m">>, <<"p","m">> }

\* the time-of-day part of a non-ISO date text: "H:MM", "HH:MM", with an
\* optional am/pm; the result is the minute of the day, or -1
ParseClock(s) ==
    LET c   == trim(s)
        col == IndexOf(c, ":")
    IN  IF col > 1 /\ col <= 3 /\ Len(c) >= col + 2
        THEN LET hh  == SubSeq(c, 1, col - 1)
                 mm  == SubSeq(c, col + 1, col + 2)
                 suf == toLowerCase(trim(SubSeq(c, col + 3, Len(c))))
             IN  IF AllDigits(hh) /\ AllDigits(mm) /\ suf \in Meridiems
                 THEN LET h == ToNum(hh)
                          m == ToNum(mm)
                      IN  IF m > 59 THEN 0 - 1
                          ELSE IF suf = <<>>
                               THEN (IF h <= 23 THEN h * 60 + m ELSE 0 - 1)
                          ELSE IF h > 12 THEN 0 - 1
                          ELSE ((h % 12) + (IF suf = <<"p","m">> THEN 12 ELSE 0)) * 60 + m
                 ELSE 0 - 1
        ELSE 0 - 1

EpochDate == <<"1","9","7","0","-","0","1","-","0","1">>

\* new Date(`1970-01-01 ${timeString}`): a date, a space and a time of day,
\* read in the host's zone
DateTimeParse(s, off) ==
    IF Len(s) >= 11 /\ ~ParseIsoDate(SubSeq(s, 1, 10)).nan /\ s[11] = " "
    THEN LET clock == ParseClock(SubSeq(s, 12, Len(s)))
         IN  IF clock < 0 THEN NaN
             ELSE LocalToUtc(ParseIsoDate(SubSeq(s, 1, 10)).day, clock, off)
    ELSE NaN

getHours(tv, off) == UtcToLocal(tv, off).min \div 60
getMinutes(tv, off) == UtcToLocal(tv, off).min % 60

normalizeTime(timeString, off) ==
    IF time24HourRegex(trim(timeString)) THEN Ok(trim(timeString))
    ELSE LET dateTime == DateTimeParse(EpochDate \o <<" ">> \o timeString, off)
         IN  IF dateTime.nan THEN Err("Invalid time format")
             ELSE Ok(Pad(getHours(dateTime, off), 2) \o <<":">>
                        \o Pad(getMinutes(dateTime, off), 2))

(***************************************************************************)
(* Harness for normalizeDate: calendar days written in each accepted       *)
(* form, texts that are no date, hosts on either side of UTC.              *)
(***************************************************************************)
TzOffsets == {0 - 300, 0, 180}

SampleYears == {1999, 2024, 2025}
SampleMonths == {1, 2, 3, 12}
SampleDays == {1, 5, 28, 29, 31}
SampleDates ==
    { ymd \in SampleYears \X SampleMonths \X SampleDays :
        ValidYMD(ymd[1], ymd[2], ymd[3]) }

\* the canonical text of a calendar day
CanonicalDate(ymd) ==
    Pad(ymd[1], 4) \o <<"-">> \o Pad(ymd[2], 2) \o <<"-">> \o Pad(ymd[3], 2)

Capitalized(s) ==
    [i \in 1..Len(s) |->
        IF i = 1 THEN Uppers[CHOOSE k \in 1..26 : Lowers[k] = s[1]] ELSE s[i]]

\* "March 5, 2025"
LongDate(ymd) ==
    Capitalized(MonthNames[ymd[2]]) \o <<" ">> \o NumToString(ymd[3])
        \o <<",", " ">> \o NumToString(ymd[1])

NoDateTexts == { <<"s","o","o","n">>, <<>>, <<"2","0","2","5","-","1","3","-","0","1">> }

DateCases ==
    { [text |-> CanonicalDate(ymd), names |-> ymd] : ymd \in SampleDates }
    \cup { [text |-> LongDate(ymd), names |-> ymd] : ymd \in SampleDates }
    \cup { [text |-> t, names |-> <<>>] : t \in NoDateTexts }

DateInit ==
    /\ \E c \in DateCases : dText = c.text /\ dNames = c.names
    /\ tz \in TzOffsets
    /\ dOut = Err("none")
    /\ dStage = "input"
    /\ SlugIdle
    /\ StoreIdle
    /\ ConnIdle

\* this.date = normalizeDate(this.date)
DateNormalize ==
    /\ dStage = "input"
    /\ dOut' = normalizeDate(dText, tz)
    /\ dStage' = "done"
    /\ UNCHANGED <<dText, dNames, tz, slugVars, storeVars, connVars>>

\* the normalized date fed through normalizeDate once more
DateRenormalize ==
    /\ dStage = "done"
    /\ dOut.ok
    /\ dOut' = normalizeDate(dOut.value, tz)
    /\ dStage' = "again"
    /\ UNCHANGED <<dText, dNames, tz, slugVars, storeVars, connVars>>

DateNext == DateNormalize \/ DateRenormalize

SpecDate == DateInit /\ [][DateNext]_vars

\* C5: for every valid calendar date in any accepted form and every host
\* offset, normalizeDate returns the YYYY-MM-DD text of the day the input
\* names; for every unparseable input it fails with an invalid-date error.
C5_SameCalendarDay ==
    dStage = "done" =>
        IF dNames # <<>>
        THEN dOut.ok /\ dOut.value = CanonicalDate(dNames)
        ELSE ~dOut.ok /\ dOut.error = "Invalid date format"

(***************************************************************************)
(* The Event schema and its pre-save hook (event.model.ts)                 *)
(***************************************************************************)
EventFields == {"title", "slug", "date", "time", "venue"}
RequiredEventFields == {"title", "date", "time", "venue"}

\* the schema's setters: trim on every text field, lowercase as well on slug
EventSetter(f, v) ==
    IF f = "slug" THEN Let(Let(v, toLowerCase), trim) ELSE Let(v, trim)

\* required: [true, ...] (the other required text fields are validated the
\* same way and are held valid here)
EventValidationError(fields) ==
    IF \E f \in RequiredEventFields : fields[f] = <<>>
    THEN "ValidationError" ELSE "none"

\* the paths of a loaded document that have been given another value
ModifiedPaths(snapshot, fields) == { f \in DOMAIN fields : fields[f] # snapshot[f] }

\* if (this.isNew || this.isModified('title')) this.slug = generateSlug(this.title)
HookSlug(isNew, modified, fields) ==
    IF isNew \/ "title" \in modified
    THEN [fields EXCEPT !.slug = EventSetter("slug", generateSlug(fields.title))]
    ELSE fields

\* if (this.isNew || this.isModified('date')) this.date = normalizeDate(this.date)
HookDate(isNew, modified, fields, off) ==
    IF isNew \/ "date" \in modified
    THEN Let(normalizeDate(fields.date, off), LAMBDA r :
             IF r.ok THEN [error |-> "none",
                           fields |-> [fields EXCEPT !.date = EventSetter("date", r.value)]]
             ELSE [error |-> r.error, fields |-> fields])
    ELSE [error |-> "none", fields |-> fields]

\* if (this.isNew || this.isModified('time')) this.time = normalizeTime(this.time)
HookTime(isNew, modified, fields, off) ==
    IF isNew \/ "time" \in modified
    THEN Let(normalizeTime(fields.time, off), LAMBDA r :
             IF r.ok THEN [error |-> "none",
                           fields |-> [fields EXCEPT !.time = EventSetter("time", r.value)]]
             ELSE [error |-> r.error, fields |-> fields])
    ELSE [error |-> "none", fields |-> fields]

\* eventSchema.pre('save'): the error thrown, if any, and the document as the
\* hook leaves it in memory; the first throw ends the hook
eventPreSave(isNew, modified, fields, off) ==
    Let(HookSlug(isNew, modified, fields), LAMBDA f1 :
        Let(HookDate(isNew, modified, f1, off), LAMBDA d :
            IF d.error # "none" THEN d
            ELSE HookTime(isNew, modified, d.fields, off)))

\* a slip that would call next() where the hook calls next(error)
EventHookSwallows(error) == TRUE

\* next() / next(error): the save goes on only when nothing was thrown
EventHookProceeds(error) == error = "none"

\* a slip that would leave the slug index non-unique
SlugNeverTaken(id, slug, evs) == FALSE

\* eventSchema.index({ slug: 1 }, { unique: true }): another document of the
\* collection already holds this slug
SlugTaken(id, slug, evs) == \E j \in DOMAIN evs \ {id} : evs[j].slug = slug

(***************************************************************************)
(* The Booking schema and its pre-save hook (booking.model.ts)             *)
(***************************************************************************)
\* /^[^\s@]+@[^\s@]+\.[^\s@]+$/
emailRegex(s) ==
    LET at == IndexOf(s, "@")
    IN  /\ at > 1
        /\ \A i \in 1..Len(s) : ~IsSpace(s[i]) /\ (s[i] = "@" => i = at)
        /\ \E j \in (at + 2)..(Len(s) - 1) : s[j] = "."

\* trim: true, lowercase: true
EmailSetter(v) == Let(Let(v, toLowerCase), trim)

BookingValidationError(b) ==
    IF b.email = <<>> \/ ~emailRegex(b.email) THEN "ValidationError" ELSE "none"

\* a slip that would look the event up for new bookings only
ChecksOnlyNew(isNew, modified) == isNew

\* this.isNew || this.isModified('eventId')
NeedsEventCheck(isNew, modified) == isNew \/ "eventId" \in modified

\* a slip that would take every event id for an existing one
EventAlwaysExists(id, evs) == TRUE

\* Event.exists({ _id: this.eventId })
EventExists(id, evs) == id \in DOMAIN evs

\* bookingSchema.pre('save'): the error thrown, if any, and the id it names
bookingPreSave(isNew, modified, b, evs) ==
    IF NeedsEventCheck(isNew, modified) /\ ~EventExists(b.eventId, evs)
    THEN [error |-> "EventDoesNotExist", missing |-> b.eventId]
    ELSE [error |-> "none", missing |-> "none"]

BookingHookProceeds(error) == error = "none"

(***************************************************************************)
(* Saves.  A save validates the document and runs the pre-save hook in one *)
(* step; the write to the collection is a later step, so that the saves of *)
(* different writers interleave between the two.                           *)
(***************************************************************************)
MaxOps == 2

Txt_LaunchDay == <<"L","a","u","n","c","h"," ","D","a","y">>
Txt_launch_day == <<"l","a","u","n","c","h"," "," ","d","a","y","!">>
Txt_Expo == <<"E","x","p","o">>
Txt_Blank == <<" ">>
Txt_IsoDate == <<"2","0","2","5","-","0","3","-","0","5">>
Txt_LongDate == <<"M","a","r","c","h"," ","5",","," ","2","0","2","5">>
Txt_FarDate == <<"+","0","1","0","0","0","0","-","0","1","-","0","1">>
Txt_Soon == <<"s","o","o","n">>
Txt_1430 == <<"1","4",":","3","0">>
Txt_905am == <<"9",":","0","5","a","m">>
Txt_Later == <<"l","a","t","e","r">>
Txt_Hall == <<"h","a","l","l">>
Txt_Online == <<"o","n","l","i","n","e">>
Txt_UserEmail == <<" ","U","S","E","R","@","E","x",".","c","o"," ">>
Txt_NoEmail == <<"n","o","b","o","d","y">>

\* what callers write into a new Event
NewEventInputs(f) ==
    CASE f = "title" -> {Txt_LaunchDay, Txt_launch_day, Txt_Expo}
      [] f = "slug"  -> {<<>>}
      [] f = "date"  -> {Txt_LongDate, Txt_FarDate, Txt_Soon}
      [] f = "time"  -> {Txt_905am, Txt_Later}
      [] f = "venue" -> {Txt_Hall}

\* what callers assign to a loaded Event
EventInputs(f) ==
    CASE f = "title" -> {Txt_LaunchDay, Txt_launch_day, Txt_Expo}
      [] f = "slug"  -> {Txt_Expo}
      [] f = "date"  -> {Txt_IsoDate, Txt_LongDate, Txt_Soon}
      [] f = "time"  -> {Txt_1430, Txt_905am, Txt_Later}
      [] f = "venue" -> {Txt_Online, Txt_Blank}
EmailInputs == {Txt_UserEmail, Txt_NoEmail}

AllEventInputs == UNION { EventInputs(f) : f \in EventFields }

\* the paths one update assigns: none, any one, or title and date together
ChangedPaths == { S \in SUBSET EventFields : Cardinality(S) <= 1 } \cup { {"title", "date"} }

EventChanges ==
    UNION { { c \in [S -> AllEventInputs] : \A f \in S : c[f] \in EventInputs(f) } :
            S \in ChangedPaths }

\* the host the store is run on is east of UTC
StoreTzOffsets == {180}

\* the _ids of the new documents whose write is under way
BeingCreated(kind) ==
    { doc[w].id : w \in { v \in Writers : pc[v] # "idle" /\ doc[v].kind = kind /\ doc[v].isNew } }

\* a store that already holds an Event and a Booking for it
SeedEvent ==
    [title |-> Txt_LaunchDay,
     slug  |-> <<"l","a","u","n","c","h","-","d","a","y">>,
     date  |-> Txt_IsoDate,
     time  |-> <<"0","9",":","0","5">>,
     venue |-> Txt_Hall]
SeedBooking ==
    [eventId |-> "e1", email |-> <<"u","s","e","r","@","e","x",".","c","o">>]

StoreInit ==
    /\ \/ events = EmptyMap /\ bookings = EmptyMap
       \/ events = [i \in {"e1"} |-> SeedEvent] /\ bookings = [i \in {"b1"} |-> SeedBooking]
    /\ pc = [w \in Writers |-> "idle"]
    /\ doc = [w \in Writers |-> NoDoc]
    /\ outcome = NoOutcome
    /\ ops = 0
    /\ tz \in StoreTzOffsets
    /\ SlugIdle
    /\ DateIdle
    /\ ConnIdle

\* document.save(), up to the end of the pre-save hooks
\* a writer between saves, with the budget of saves not yet spent
CanStart(w) == pc[w] = "idle" /\ ops < MaxOps

StartSave(w, kind, id, isNew, delta, error, missing, touched, proceeds) ==
    /\ ops' = ops + 1
    /\ IF proceeds
       THEN /\ pc' = [pc EXCEPT ![w] = IF kind = "event" THEN "eventCommit" ELSE "bookingCommit"]
            /\ doc' = [doc EXCEPT ![w] =
                          [kind |-> kind, id |-> id, isNew |-> isNew, delta |-> delta]]
            /\ outcome' = Outcome(w, kind, "pending", error, missing)
       ELSE /\ pc' = pc
            /\ doc' = [doc EXCEPT ![w] = NoDoc]
            /\ outcome' = [Outcome(w, kind, "rejected", error, missing) EXCEPT !.touched = touched]
    /\ UNCHANGED <<events, bookings, tz, slugVars, dateVars, connVars>>

\* validation runs first; the pre-save hook runs only on a valid document
ValidateThenHook(isNew, snapshot, assigned, off) ==
    IF EventValidationError(assigned) # "none"
    THEN [error |-> EventValidationError(assigned), fields |-> assigned]
    ELSE eventPreSave(isNew,
                      IF isNew THEN EventFields ELSE ModifiedPaths(snapshot, assigned),
                      assigned, off)

\* what the write carries: the whole new document, or the paths of a loaded
\* one that no longer have the loaded value
WrittenPaths(isNew, snapshot, after) ==
    IF isNew THEN after ELSE [f \in ModifiedPaths(snapshot, after) |-> after[f]]

StartEventSave(w, id, isNew, snapshot, assigned) ==
    \E a \in {assigned} :
      \E r \in {ValidateThenHook(isNew, snapshot, a, tz)} :
        \E delta \in {WrittenPaths(isNew, snapshot, r.fields)} :
            StartSave(w, "event", id, isNew, delta, r.error, "none", r.fields # a,
                      EventHookProceeds(r.error))

\* new Event({...}).save()
SaveNewEventWith(w, id, title, slug, date, time, venue) ==
    /\ CanStart(w)
    /\ id \in EventIds \ (DOMAIN events \cup BeingCreated("event"))
    /\ StartEventSave(w, id, TRUE, EmptyMap,
          [f \in EventFields |->
              EventSetter(f, CASE f = "title" -> title [] f = "slug" -> slug
                               [] f = "date" -> date [] f = "time" -> time
                               [] f = "venue" -> venue)])

SaveNewEvent(w) ==
    /\ CanStart(w)
    /\ \E id \in EventIds, title \in NewEventInputs("title"),
       slug \in NewEventInputs("slug"), date \in NewEventInputs("date"),
       time \in NewEventInputs("time"), venue \in NewEventInputs("venue") :
        SaveNewEventWith(w, id, title, slug, date, time, venue)

\* a loaded Event, some fields assigned, then .save()
SaveExistingEventWith(w, id, changes) ==
    /\ CanStart(w)
    /\ id \in DOMAIN events
    /\ StartEventSave(w, id, FALSE, events[id],
          [f \in EventFields |->
              IF f \in DOMAIN changes THEN EventSetter(f, changes[f]) ELSE events[id][f]])

SaveExistingEvent(w) ==
    /\ CanStart(w)
    /\ \E id \in EventIds, changes \in EventChanges : SaveExistingEventWith(w, id, changes)

\* the write of an Event: insertOne of the document, or updateOne with $set of
\* the paths that changed; the unique index rejects a slug already held
EventCommit(w) ==
    /\ pc[w] = "eventCommit"
    /\ LET d == doc[w]
       IN  IF "slug" \in DOMAIN d.delta /\ SlugTaken(d.id, d.delta.slug, events)
           THEN /\ events' = events
                /\ outcome' = Outcome(w, "event", "rejected", "UniquenessViolation", "none")
           ELSE /\ events' =
                      [i \in DOMAIN events \cup {d.id} |->
                          IF i = d.id
                          THEN [f \in EventFields |->
                                   IF f \in DOMAIN d.delta THEN d.delta[f] ELSE events[i][f]]
                          ELSE events[i]]
                /\ outcome' = Outcome(w, "event", "saved", "none", "none")
    /\ pc' = [pc EXCEPT ![w] = "idle"]
    /\ doc' = [doc EXCEPT ![w] = NoDoc]
    /\ UNCHANGED <<bookings, ops, tz, slugVars, dateVars, connVars>>

\* validation runs first; the pre-save hook runs only on a valid document
ValidateThenBookingHook(isNew, snapshot, assigned, evs) ==
    IF BookingValidationError(assigned) # "none"
    THEN [error |-> BookingValidationError(assigned), missing |-> "none"]
    ELSE bookingPreSave(isNew,
                        IF isNew THEN {"eventId", "email"}
                        ELSE ModifiedPaths(snapshot, assigned),
                        assigned, evs)

StartBookingSave(w, id, isNew, snapshot, assigned) ==
    \E a \in {assigned} :
      \E r \in {ValidateThenBookingHook(isNew, snapshot, a, events)} :
        \E delta \in {WrittenPaths(isNew, snapshot, a)} :
            StartSave(w, "booking", id, isNew, delta, r.error, r.missing, FALSE,
                      BookingHookProceeds(r.error))

\* new Booking({ eventId, email }).save()
SaveNewBookingWith(w, id, eventId, email) ==
    /\ CanStart(w)
    /\ id \in BookingIds \ (DOMAIN bookings \cup BeingCreated("booking"))
    /\ StartBookingSave(w, id, TRUE, EmptyMap,
          [eventId |-> eventId, email |-> EmailSetter(email)])

SaveNewBooking(w) ==
    /\ CanStart(w)
    /\ \E id \in BookingIds, eventId \in EventIds, email \in EmailInputs :
        SaveNewBookingWith(w, id, eventId, email)

\* a loaded Booking, eventId and/or email assigned, then .save()
SaveExistingBookingWith(w, id, eventId, email) ==
    /\ CanStart(w)
    /\ id \in DOMAIN bookings
    /\ StartBookingSave(w, id, FALSE, bookings[id],
          [eventId |-> eventId, email |-> EmailSetter(email)])

SaveExistingBooking(w) ==
    /\ CanStart(w)
    /\ \E id \in BookingIds, eventId \in EventIds, email \in EmailInputs :
        SaveExistingBookingWith(w, id, eventId, email)

\* the write of a Booking
BookingCommit(w) ==
    /\ pc[w] = "bookingCommit"
    /\ LET d == doc[w]
       IN  bookings' =
               [i \in DOMAIN bookings \cup {d.id} |->
                   IF i = d.id
                   THEN [f \in {"eventId", "email"} |->
                            IF f \in DOMAIN d.delta THEN d.delta[f] ELSE bookings[i][f]]
                   ELSE bookings[i]]
    /\ outcome' = Outcome(w, "booking", "saved", "none", "none")
    /\ pc' = [pc EXCEPT ![w] = "idle"]
    /\ doc' = [doc EXCEPT ![w] = NoDoc]
    /\ UNCHANGED <<events, ops, tz, slugVars, dateVars, connVars>>

Next ==
    \E w \in Writers :
        \/ SaveNewEvent(w)
        \/ SaveExistingEvent(w)
        \/ EventCommit(w)
        \/ SaveNewBooking(w)
        \/ SaveExistingBooking(w)
        \/ BookingCommit(w)

Spec == StoreInit /\ [][Next]_vars

(***************************************************************************)
(* Properties of the store                                                 *)
(***************************************************************************)
\* C1: every stored Booking has the eventId of a stored Event.
C1_NoOrphanedBooking ==
    \A b \in DOMAIN bookings : bookings[b].eventId \in DOMAIN events

C1_Witness ==
    /\ \E b \in DOMAIN bookings : bookings[b].eventId = "e2"
    /\ outcome.status = "saved"

SavesBookingEventId(w, id, eid, email) ==
    \/ SaveNewBookingWith(w, id, eid, email)
    \/ SaveExistingBookingWith(w, id, eid, email) /\ bookings[id].eventId # eid

BookingCommitWritesDelta ==
    \A w \in Writers :
        (pc[w] = "bookingCommit" /\ pc'[w] = "idle") =>
            /\ outcome' = Outcome(w, "booking", "saved", "none", "none")
            /\ \A f \in DOMAIN doc[w].delta : bookings'[doc[w].id][f] = doc[w].delta[f]
            /\ \A b \in DOMAIN bookings \ {doc[w].id} : bookings'[b] = bookings[b]

\* C2, as amended: a save of a Booking that is new or whose eventId was
\* modified, with a valid email, is rejected with the error naming the
\* missing event id and leaves the Bookings unchanged when no such Event is
\* stored, and otherwise goes on to store the Booking with that eventId; with
\* an invalid email it is rejected by validation, Bookings unchanged.
C2_BookingSaveChecksEvent ==
    [][ /\ \A w \in Writers, id \in BookingIds, eid \in EventIds, email \in EmailInputs :
              SavesBookingEventId(w, id, eid, email) =>
                  IF ~emailRegex(EmailSetter(email))
                  THEN /\ outcome' = Outcome(w, "booking", "rejected", "ValidationError", "none")
                       /\ bookings' = bookings
                  ELSE IF eid \notin DOMAIN events
                  THEN /\ outcome' = Outcome(w, "booking", "rejected", "EventDoesNotExist", eid)
                       /\ bookings' = bookings
                  ELSE /\ pc'[w] = "bookingCommit"
                       /\ doc'[w].id = id /\ doc'[w].delta.eventId = eid
        /\ BookingCommitWritesDelta ]_vars

\* C2 as stated: whenever no such Event is stored the save is rejected with
\* the referential-integrity error naming the event id.
C2_AsStated ==
    [][ /\ \A w \in Writers, id \in BookingIds, eid \in EventIds, email \in EmailInputs :
              SavesBookingEventId(w, id, eid, email) =>
                  IF eid \notin DOMAIN events
                  THEN /\ outcome' = Outcome(w, "booking", "rejected", "EventDoesNotExist", eid)
                       /\ bookings' = bookings
                  ELSE emailRegex(EmailSetter(email)) =>
                          /\ pc'[w] = "bookingCommit"
                          /\ doc'[w].id = id /\ doc'[w].delta.eventId = eid
        /\ BookingCommitWritesDelta ]_vars

C2_Witness ==
    /\ outcome.status = "rejected" /\ outcome.error = "EventDoesNotExist"
    /\ outcome.missing = "e2"
    /\ "b1" \in DOMAIN bookings /\ bookings["b1"].eventId = "e1"

UniqueSlugs ==
    \A i, j \in DOMAIN events : i # j => events[i].slug # events[j].slug

\* C3: no two stored Events share a slug; a write of a slug that another
\* stored Event holds is rejected with a uniqueness violation and leaves the
\* stored Events as they were.
C3_SlugUnique ==
    /\ []UniqueSlugs
    /\ [][ \A w \in Writers :
              (/\ pc[w] = "eventCommit" /\ pc'[w] = "idle"
               /\ "slug" \in DOMAIN doc[w].delta
               /\ \E j \in DOMAIN events \ {doc[w].id} : events[j].slug = doc[w].delta.slug)
              => /\ events' = events
                 /\ outcome' = Outcome(w, "event", "rejected", "UniquenessViolation", "none") ]_vars

C3_Witness ==
    /\ outcome.status = "rejected" /\ outcome.error = "UniquenessViolation"
    /\ bookings = EmptyMap
    /\ Cardinality(DOMAIN events) = 1

CanonicalDateText(s) ==
    /\ Len(s) = 10
    /\ s[5] = "-" /\ s[8] = "-"
    /\ \A i \in {1, 2, 3, 4, 6, 7, 9, 10} : IsDigit(s[i])
    /\ ToNum(SubSeq(s, 6, 7)) \in 1..12
    /\ ToNum(SubSeq(s, 9, 10)) \in 1..31

CanonicalTimeText(s) ==
    /\ Len(s) = 5
    /\ s[3] = ":"
    /\ \A i \in {1, 2, 4, 5} : IsDigit(s[i])
    /\ ToNum(SubSeq(s, 1, 2)) \in 0..23
    /\ ToNum(SubSeq(s, 4, 5)) \in 0..59

\* C4: every stored Event has its date as YYYY-MM-DD and its time as HH:MM.
C4_CanonicalDateTime ==
    \A i \in DOMAIN events :
        CanonicalDateText(events[i].date) /\ CanonicalTimeText(events[i].time)

\* C6: the write of an update that modifies none of title, date and time
\* leaves the stored slug, date and time as they were.
C6_UntouchedFieldsKept ==
    [][ \A w \in Writers :
            (/\ pc[w] = "eventCommit" /\ pc'[w] = "idle"
             /\ ~doc[w].isNew
             /\ DOMAIN doc[w].delta \cap {"title", "date", "time"} = {})
            => /\ events'[doc[w].id].slug = events[doc[w].id].slug
               /\ events'[doc[w].id].date = events[doc[w].id].date
               /\ events'[doc[w].id].time = events[doc[w].id].time ]_vars

HookErrors ==
    {"ValidationError", "Invalid date format", "Invalid time format", "EventDoesNotExist"}

\* C7: a save that fails in validation or in its pre-save hook leaves both
\* collections as they were and ends there: nothing of it is left to write.
C7_FailedSaveAborts ==
    [][ outcome'.error \in HookErrors =>
            /\ events' = events
            /\ bookings' = bookings
            /\ outcome'.status = "rejected"
            /\ pc'[outcome'.writer] = "idle" ]_vars

\* an update whose slug was regenerated in memory before its date failed to
\* parse: the stored Event is still the one the store began with
C7_Witness ==
    /\ outcome.status = "rejected" /\ outcome.error = "Invalid date format"
    /\ outcome.touched
    /\ ops = 1
    /\ DOMAIN events = {"e1"} /\ events["e1"] = SeedEvent

\* C8: every stored Event's slug is generateSlug of its stored title.
C8_SlugFromTitle ==
    \A i \in DOMAIN events : events[i].slug = generateSlug(events[i].title)

(***************************************************************************)
(* connectToDatabase (lib/mongodb.ts).  A call runs up to its await in one *)
(* step and resumes in a later one; the outcome of a connection attempt    *)
(* and the steps of the other callers come in between, in any order.       *)
(* cachedPromise = 0 stands for null; attempt n is the promise made by the *)
(* n-th call of mongoose.connect.                                          *)
(***************************************************************************)
MaxAttempts == 3
MaxCalls == 5

\* every attempt resolves to mongoose.connection, the one default connection
Connection == "mongoose.connection"

ConnInit ==
    /\ cachedConn = "null"
    /\ cachedPromise = 0
    /\ attempts = <<>>
    /\ callers = [c \in Callers |-> NotCalling]
    /\ established = 0
    /\ calls = 0
    /\ tz = 0
    /\ SlugIdle
    /\ DateIdle
    /\ StoreIdle

\* the variables of the other harnesses
ConnFrame == UNCHANGED <<tz, slugVars, dateVars, storeVars>>

CanCall(c) == callers[c].pc \in {"idle", "returned", "threw"} /\ calls < MaxCalls

\* if (cached.conn) return cached.conn
CallReturnsCached(c) ==
    /\ CanCall(c)
    /\ cachedConn # "null"
    /\ callers' = [callers EXCEPT ![c] = [pc |-> "returned", awaits |-> 0]]
    /\ calls' = calls + 1
    /\ UNCHANGED <<cachedConn, cachedPromise, attempts, established>>
    /\ ConnFrame

\* if (!cached.promise) cached.promise = mongoose.connect(...)...; then await
CallStartsAttempt(c) ==
    /\ CanCall(c)
    /\ cachedConn = "null"
    /\ cachedPromise = 0
    /\ Len(attempts) < MaxAttempts
    /\ attempts' = Append(attempts, "pending")
    /\ cachedPromise' = Len(attempts) + 1
    /\ callers' = [callers EXCEPT ![c] = [pc |-> "awaiting", awaits |-> Len(attempts) + 1]]
    /\ calls' = calls + 1
    /\ UNCHANGED <<cachedConn, established>>
    /\ ConnFrame

\* cached.promise is set: await it
CallAwaitsPending(c) ==
    /\ CanCall(c)
    /\ cachedConn = "null"
    /\ cachedPromise # 0
    /\ callers' = [callers EXCEPT ![c] = [pc |-> "awaiting", awaits |-> cachedPromise]]
    /\ calls' = calls + 1
    /\ UNCHANGED <<cachedConn, cachedPromise, attempts, established>>
    /\ ConnFrame

\* mongoose.connect resolves: .then((mongooseInstance) => mongooseInstance.connection)
AttemptConnects(n) ==
    /\ n \in 1..Len(attempts)
    /\ attempts[n] = "pending"
    /\ attempts' = [attempts EXCEPT ![n] = "fulfilled"]
    /\ established' = established + 1
    /\ UNCHANGED <<cachedConn, cachedPromise, callers, calls>>
    /\ ConnFrame

\* mongoose.connect rejects: .catch((error) => { cached.promise = null; throw error })
AttemptFails(n) ==
    /\ n \in 1..Len(attempts)
    /\ attempts[n] = "pending"
    /\ attempts' = [attempts EXCEPT ![n] = "rejected"]
    /\ cachedPromise' = 0
    /\ UNCHANGED <<cachedConn, callers, established, calls>>
    /\ ConnFrame

\* cached.conn = await cached.promise; return cached.conn
ResumeConnected(c) ==
    /\ callers[c].pc = "awaiting"
    /\ attempts[callers[c].awaits] = "fulfilled"
    /\ cachedConn' = Connection
    /\ callers' = [callers EXCEPT ![c] = [pc |-> "returned", awaits |-> 0]]
    /\ UNCHANGED <<cachedPromise, attempts, established, calls>>
    /\ ConnFrame

\* catch (error) { cached.promise = null; throw error }
ResumeFailed(c) ==
    /\ callers[c].pc = "awaiting"
    /\ attempts[callers[c].awaits] = "rejected"
    /\ cachedPromise' = 0
    /\ callers' = [callers EXCEPT ![c] = [pc |-> "threw", awaits |-> 0]]
    /\ UNCHANGED <<cachedConn, attempts, established, calls>>
    /\ ConnFrame

ConnNext ==
    \/ \E c \in Callers :
          \/ CallReturnsCached(c)
          \/ CallStartsAttempt(c)
          \/ CallAwaitsPending(c)
          \/ ResumeConnected(c)
          \/ ResumeFailed(c)
    \/ \E n \in 1..MaxAttempts : AttemptConnects(n) \/ AttemptFails(n)

SpecConn == ConnInit /\ [][ConnNext]_vars

InFlight == { n \in 1..Len(attempts) : attempts[n] = "pending" }

\* C10: at most one connection attempt is in flight at a time and at most one
\* connection is ever established; the callers that wait for a pending
\* attempt wait for the same one; cached.promise, when set, is an attempt in
\* flight or the one that connected.
C10_SingleAttempt ==
    /\ Cardinality(InFlight) <= 1
    /\ established <= 1
    /\ \A c, d \in Callers :
          (/\ callers[c].pc = "awaiting" /\ callers[d].pc = "awaiting"
           /\ callers[c].awaits \in InFlight /\ callers[d].awaits \in InFlight)
          => callers[c].awaits = callers[d].awaits
    /\ cachedPromise # 0 => cachedPromise \in InFlight \/ attempts[cachedPromise] = "fulfilled"

(***************************************************************************)
(* Harness for generateSlug: every title over TitleAlphabet up to          *)
(* MaxTitleLen characters, and the title of the documented scenario.       *)
(***************************************************************************)
MaxTitleLen == 4
TitleAlphabet == {"a", "B", "7", "_", "-", " ", "!"}

RECURSIVE SeqsUpTo(_, _)
SeqsUpTo(S, n) ==
    IF n = 0 THEN {<<>>}
    ELSE LET shorter == SeqsUpTo(S, n - 1)
         IN  shorter \cup { Append(s, c) : s \in shorter, c \in S }

MyCoolEvent == <<"M","y"," ","C","o","o","l"," ","E","v","e","n","t","!","!">>
MyCoolEventSlug == <<"m","y","-","c","o","o","l","-","e","v","e","n","t">>

SlugTitles == SeqsUpTo(TitleAlphabet, MaxTitleLen) \cup {MyCoolEvent}

SlugInit ==
    /\ sTitle \in SlugTitles
    /\ sSlug = <<>>
    /\ sAgain = <<>>
    /\ sStage = "title"
    /\ DateIdle
    /\ StoreIdle
    /\ ConnIdle
    /\ tz = 0

\* this.slug = generateSlug(this.title)
SlugGenerate ==
    /\ sStage = "title"
    /\ sSlug' = generateSlug(sTitle)
    /\ sStage' = "slug"
    /\ UNCHANGED <<sTitle, sAgain, dateVars, tz, storeVars, connVars>>

\* the slug fed through generateSlug once more
SlugRegenerate ==
    /\ sStage = "slug"
    /\ sAgain' = generateSlug(sSlug)
    /\ sStage' = "again"
    /\ UNCHANGED <<sTitle, sSlug, dateVars, tz, storeVars, connVars>>

SlugNext == SlugGenerate \/ SlugRegenerate

SpecSlug == SlugInit /\ [][SlugNext]_vars

SlugChar(c) == IsLower(c) \/ IsDigit(c) \/ c = "_" \/ c = "-"

\* C9: generateSlug is idempotent, its result holds only lowercase letters,
\* digits, underscores and hyphens, no whitespace and no two adjacent hyphens,
\* and "My Cool Event!!" gives "my-cool-event".
C9_SlugIdempotent ==
    /\ sStage \in {"slug", "again"} =>
          /\ \A i \in 1..Len(sSlug) : SlugChar(sSlug[i]) /\ ~IsSpace(sSlug[i])
          /\ \A i \in 1..(Len(sSlug) - 1) : ~(sSlug[i] = "-" /\ sSlug[i + 1] = "-")
          /\ (sTitle = MyCoolEvent => sSlug = MyCoolEventSlug)
    /\ sStage = "again" => sAgain = sSlug

C9_Witness ==
    /\ sStage = "again"
    /\ sTitle = <<"!", " ", "B", "-">>
    /\ sSlug = <<"-", "b", "-">>
    /\ sAgain = sSlug
====
